---- MODULE Spec2Model ----
(***************************************************************************)
(* Model of the rule-based compliance scoring engine of ProofStack         *)
(* (LegalStandardsEngine, legalStandards.ts), of its EvidenceAnalyzer      *)
(* (evidenceAnalyzer.ts), and of the API key holder and the request queue  *)
(* of its Gemini services (optimizedGeminiService.ts).                     *)
(*                                                                         *)
(* Rule ids are sequences of one-character strings so that                 *)
(* normalizeRuleId (case folding, '_' -> '-', legacy remaps) is computed   *)
(* character by character as the code computes it.                         *)
(* Metadata values are tagged JavaScript values, so that truthiness,       *)
(* optional chaining and `||` defaults are computed as JavaScript does;    *)
(* the elements of a findings list are tagged the same way (a string the   *)
(* evaluator pushed, or a Finding object).                                 *)
(***************************************************************************)
EXTENDS Integers, Sequences, FiniteSets, TLC

VARIABLES
  \* LegalStandardsEngine: its two maps; the evidence under assessment and
  \* the outcome of the caller's latest call
  rules, criteria, evidence, outcome,
  \* the API key holder (geminiService): its two module variables, the
  \* browser's local storage, and the calls made so far with what they returned
  currentApiKey, ai, localStorage, history,
  \* OptimizedGeminiService: its request queue and flag, the activations of
  \* processQueue, and the requests callers handed to makeAPIRequest
  requestQueue, isProcessingQueue, loops, requests

keyVars == <<currentApiKey, ai, localStorage, history>>

serviceVars == <<requestQueue, isProcessingQueue, loops, requests>>

vars == <<rules, criteria, evidence, outcome, keyVars, serviceVars>>

(***************************************************************************)
(* Bounds of the model.                                                    *)
(***************************************************************************)
\* longest chain-of-custody array an evidence record carries
MaxCustody == 1
\* largest number of metadata fields present in one evidence record
MaxPresent == 3

(***************************************************************************)
(* JavaScript values of the metadata bag.                                  *)
(***************************************************************************)
Undef == [t |-> "undefined"]
Str(s) == [t |-> "string", v |-> s]
Bool(b) == [t |-> "boolean", v |-> b]
Num(n) == [t |-> "number", v |-> n]
Arr(a) == [t |-> "array", v |-> a]
Obj(o) == [t |-> "object", v |-> o]
Null == [t |-> "null"]

\* JavaScript ToBoolean
Truthy(x) ==
  CASE x.t = "undefined" -> FALSE
    [] x.t = "null" -> FALSE
    [] x.t = "boolean" -> x.v
    [] x.t = "string" -> x.v # ""
    [] x.t = "number" -> x.v # 0
    [] x.t = "array" -> TRUE
    [] x.t = "object" -> TRUE

\* Math.round(num / den) for den > 0: floor(x + 1/2)
Round(num, den) == (2 * num + den) \div (2 * den)

Min(a, b) == IF a <= b THEN a ELSE b

(***************************************************************************)
(* Rule ids as character sequences.                                        *)
(***************************************************************************)
Upper == <<"A","B","C","D","E","F","G","H","I","J","K","L","M",
           "N","O","P","Q","R","S","T","U","V","W","X","Y","Z">>
Lower == <<"a","b","c","d","e","f","g","h","i","j","k","l","m",
           "n","o","p","q","r","s","t","u","v","w","x","y","z">>

ToLowerChar(c) ==
  IF \E i \in 1..26 : Upper[i] = c
  THEN Lower[CHOOSE i \in 1..26 : Upper[i] = c]
  ELSE c

\* String.prototype.toLowerCase
ToLowerCase(s) == [i \in 1..Len(s) |-> ToLowerChar(s[i])]

\* String.prototype.replace(/c/g, d) for a one-character pattern
ReplaceAllChar(s, c, d) == [i \in 1..Len(s) |-> IF s[i] = c THEN d ELSE s[i]]

Occurs(s, pat, i) ==
  /\ i + Len(pat) - 1 <= Len(s)
  /\ SubSeq(s, i, i + Len(pat) - 1) = pat

\* String.prototype.replace(pat, rep) for a string pattern: first occurrence only
ReplaceFirst(s, pat, rep) ==
  IF \E i \in 1..Len(s) : Occurs(s, pat, i)
  THEN LET i == CHOOSE k \in 1..Len(s) :
                  /\ Occurs(s, pat, k)
                  /\ \A j \in 1..(k - 1) : ~Occurs(s, pat, j)
       IN SubSeq(s, 1, i - 1) \o rep \o SubSeq(s, i + Len(pat), Len(s))
  ELSE s

fre901 == <<"f","r","e","-","9","0","1">>
fre902 == <<"f","r","e","-","9","0","2">>
fre1001 == <<"f","r","e","-","1","0","0","1">>
fre1002 == <<"f","r","e","-","1","0","0","2">>
fre401 == <<"f","r","e","-","4","0","1">>
fre403 == <<"f","r","e","-","4","0","3">>
fre803 == <<"f","r","e","-","8","0","3">>
fre8036 == <<"f","r","e","-","8","0","3","-","6">>
ire901 == <<"i","r","e","-","9","0","1">>

FRE_901 == <<"F","R","E","_","9","0","1">>
FRE_902 == <<"F","R","E","_","9","0","2">>
FRE_1002 == <<"F","R","E","_","1","0","0","2">>
FRE_803_6 == <<"F","R","E","_","8","0","3","_","6">>
FRE_401 == <<"F","R","E","_","4","0","1">>
FRE_403 == <<"F","R","E","_","4","0","3">>
INVALID_RULE == <<"I","N","V","A","L","I","D","_","R","U","L","E">>
notARealRule == <<"n","o","t","-","a","-","r","e","a","l","-","r","u","l","e">>

(***************************************************************************)
(* The static catalog.                                                     *)
(***************************************************************************)
FEDERAL_RULES == <<
  [id |-> fre901, jurisdiction |-> "Federal", ruleNumber |-> "FRE 901",
   category |-> "Authentication", citation |-> "Fed. R. Evid. 901"],
  [id |-> fre902, jurisdiction |-> "Federal", ruleNumber |-> "FRE 902",
   category |-> "Authentication", citation |-> "Fed. R. Evid. 902"],
  [id |-> fre1001, jurisdiction |-> "Federal", ruleNumber |-> "FRE 1001-1008",
   category |-> "BestEvidence", citation |-> "Fed. R. Evid. 1001-1008"],
  [id |-> fre401, jurisdiction |-> "Federal", ruleNumber |-> "FRE 401",
   category |-> "Relevance", citation |-> "Fed. R. Evid. 401"],
  [id |-> fre403, jurisdiction |-> "Federal", ruleNumber |-> "FRE 403",
   category |-> "Relevance", citation |-> "Fed. R. Evid. 403"],
  [id |-> fre803, jurisdiction |-> "Federal", ruleNumber |-> "FRE 803",
   category |-> "Hearsay", citation |-> "Fed. R. Evid. 803"] >>

INDIANA_RULES == <<
  [id |-> ire901, jurisdiction |-> "Indiana", ruleNumber |-> "IRE 901",
   category |-> "Authentication", citation |-> "Ind. R. Evid. 901"] >>

\* per rule: weight and the maxPoints of its scoring factors, in order
ANALYSIS_CRITERIA == <<
  [ruleId |-> fre901, weight |-> 9, scoringFactors |-> <<25, 20, 15>>],
  [ruleId |-> fre902, weight |-> 8, scoringFactors |-> <<30>>],
  [ruleId |-> fre1001, weight |-> 7, scoringFactors |-> <<25>>],
  [ruleId |-> fre803, weight |-> 8, scoringFactors |-> <<30>>],
  [ruleId |-> fre401, weight |-> 9, scoringFactors |-> <<25>>],
  [ruleId |-> fre403, weight |-> 8, scoringFactors |-> <<25>>] >>

\* state of the engine after its constructor; Map.set in a forEach: the last
\* entry with a key wins
ConstructedRules ==
  LET list == FEDERAL_RULES \o INDIANA_RULES
  IN [k \in {list[i].id : i \in 1..Len(list)} |->
        list[CHOOSE i \in 1..Len(list) :
               /\ list[i].id = k
               /\ \A j \in (i + 1)..Len(list) : list[j].id # k]]

ConstructedCriteria ==
  LET list == ANALYSIS_CRITERIA
  IN [k \in {list[i].ruleId : i \in 1..Len(list)} |->
        list[CHOOSE i \in 1..Len(list) :
               /\ list[i].ruleId = k
               /\ \A j \in (i + 1)..Len(list) : list[j].ruleId # k]]

\* Map.get: undefined for a key that is not in the map
getRuleById(ruleId) ==
  IF ruleId \in DOMAIN rules THEN rules[ruleId] ELSE Undef

getCriteriaForRule(ruleId) ==
  IF ruleId \in DOMAIN criteria THEN criteria[ruleId] ELSE Undef

RECURSIVE SumSeq(_)
SumSeq(s) == IF s = <<>> THEN 0 ELSE Head(s) + SumSeq(Tail(s))

(***************************************************************************)
(* Evidence records.                                                       *)
(***************************************************************************)
MetaFields == {"digitalSignature", "chainOfCustody", "documentType",
               "isOriginal", "copyJustification", "regularCourse",
               "recordKeeper", "isHearsay", "hearsayException",
               "relevanceScore", "prejudicialRisk"}

CustodyEntry == [handler |-> "Officer Smith", action |-> "collected"]

CustodyArrays == {Arr([i \in 1..n |-> CustodyEntry]) : n \in 0..MaxCustody}

\* relevanceScore as documented: a number 0-100; the two ends and the values
\* at the bucket limits 60 and 80
RelevanceScores == {0, 59, 60, 80, 100}

FieldValues(f) ==
  CASE f = "digitalSignature" -> {Undef, Str("valid-signature")}
    [] f = "chainOfCustody" -> {Undef} \cup CustodyArrays
    [] f = "documentType" -> {Undef, Str("public_record"), Str("business_record")}
    [] f = "isOriginal" -> {Undef, Bool(FALSE), Bool(TRUE)}
    [] f = "copyJustification" -> {Undef, Str("Original destroyed in fire")}
    [] f = "regularCourse" -> {Undef, Bool(TRUE)}
    [] f = "recordKeeper" -> {Undef, Str("Company ABC")}
    [] f = "isHearsay" -> {Undef, Bool(TRUE)}
    [] f = "hearsayException" -> {Undef, Str("business_records")}
    [] f = "relevanceScore" -> {Undef} \cup {Num(n) : n \in RelevanceScores}
    [] f = "prejudicialRisk" -> {Undef, Str("low"), Str("medium"), Str("high")}

\* a metadata bag: every field is optional (Undef when absent)
MetadataBags ==
  [digitalSignature : FieldValues("digitalSignature"),
   chainOfCustody : FieldValues("chainOfCustody"),
   documentType : FieldValues("documentType"),
   isOriginal : FieldValues("isOriginal"),
   copyJustification : FieldValues("copyJustification"),
   regularCourse : FieldValues("regularCourse"),
   recordKeeper : FieldValues("recordKeeper"),
   isHearsay : FieldValues("isHearsay"),
   hearsayException : FieldValues("hearsayException"),
   relevanceScore : FieldValues("relevanceScore"),
   prejudicialRisk : FieldValues("prejudicialRisk")]

\* evidence.metadata?.field
MetadataField(ev, field) ==
  IF ev.metadata.t = "undefined" THEN Undef ELSE ev.metadata.v[field]

\* evidence.metadata?.chainOfCustody?.length > 0
HasCustody(ev) ==
  LET c == MetadataField(ev, "chainOfCustody")
  IN IF c.t = "array" THEN Len(c.v) > 0 ELSE FALSE

(***************************************************************************)
(* The rule evaluators.  Each takes the two lists evaluateRule created and *)
(* returns the raw score with the lists as it left them.                   *)
(***************************************************************************)
Scored(score, findings, recommendations) ==
  [score |-> score, findings |-> findings, recommendations |-> recommendations]

\* variant: the base score before it was increased to 55
evaluateFRE901LowBase(ev, findings, recommendations) ==
  LET sig == Truthy(MetadataField(ev, "digitalSignature"))
      s1 == IF sig THEN 45 + 25 ELSE 45
      f1 == Append(findings,
                   IF sig THEN Str("Digital signature present for authentication")
                          ELSE Str("Missing digital authentication"))
      r1 == IF sig THEN recommendations
            ELSE Append(recommendations,
                        "Obtain digital signature or other authentication method")
      coc == HasCustody(ev)
      s2 == IF coc THEN s1 + 20 ELSE s1
      f2 == Append(f1, IF coc THEN Str("Chain of custody documented")
                              ELSE Str("Chain of custody missing or incomplete"))
      r2 == IF coc THEN r1
            ELSE Append(r1, "Document complete chain of custody")
  IN Scored(s2, f2, r2)

evaluateFRE901(ev, findings, recommendations) ==
  LET sig == Truthy(MetadataField(ev, "digitalSignature"))
      s1 == IF sig THEN 55 + 25 ELSE 55
      f1 == Append(findings,
                   IF sig THEN Str("Digital signature present for authentication")
                          ELSE Str("Missing digital authentication"))
      r1 == IF sig THEN recommendations
            ELSE Append(recommendations,
                        "Obtain digital signature or other authentication method")
      coc == HasCustody(ev)
      s2 == IF coc THEN s1 + 20 ELSE s1
      f2 == Append(f1, IF coc THEN Str("Chain of custody documented")
                              ELSE Str("Chain of custody missing or incomplete"))
      r2 == IF coc THEN r1
            ELSE Append(r1, "Document complete chain of custody")
  IN Scored(s2, f2, r2)

evaluateFRE902(ev, findings, recommendations) ==
  IF MetadataField(ev, "documentType") = Str("public_record")
  THEN Scored(45 + 45,
              Append(findings,
                     Str("Document qualifies as self-authenticating public record")),
              recommendations)
  ELSE Scored(45,
              Append(findings, Str("Document requires additional authentication")),
              Append(recommendations,
                     "Provide authentication witness or certification"))

\* variant: an unjustified copy gets its finding but no recommendation
evaluateFRE1002NoAdvice(ev, findings, recommendations) ==
  IF Truthy(MetadataField(ev, "isOriginal"))
  THEN Scored(35 + 60, Append(findings, Str("Original document provided")),
              recommendations)
  ELSE IF Truthy(MetadataField(ev, "copyJustification"))
  THEN Scored(35 + 45,
              Append(findings, Str("Copy provided with proper justification")),
              recommendations)
  ELSE Scored(35,
              Append(findings,
                     Str("Copy provided without justification for original absence")),
              recommendations)

evaluateFRE1002(ev, findings, recommendations) ==
  IF Truthy(MetadataField(ev, "isOriginal"))
  THEN Scored(35 + 60, Append(findings, Str("Original document provided")),
              recommendations)
  ELSE IF Truthy(MetadataField(ev, "copyJustification"))
  THEN Scored(35 + 45,
              Append(findings, Str("Copy provided with proper justification")),
              recommendations)
  ELSE Scored(35,
              Append(findings,
                     Str("Copy provided without justification for original absence")),
              Append(recommendations,
                     "Provide justification for using copy instead of original"))

evaluateFRE803_6(ev, findings, recommendations) ==
  IF /\ Truthy(MetadataField(ev, "regularCourse"))
     /\ Truthy(MetadataField(ev, "recordKeeper"))
  THEN Scored(35 + 50,
              Append(findings,
                     Str("Qualifies as business record exception to hearsay")),
              recommendations)
  ELSE IF /\ Truthy(MetadataField(ev, "isHearsay"))
          /\ ~Truthy(MetadataField(ev, "hearsayException"))
  THEN Scored(20,
              Append(findings, Str("Hearsay evidence without applicable exception")),
              Append(recommendations,
                     "Establish hearsay exception or find non-hearsay alternative"))
  ELSE Scored(35, findings, recommendations)

evaluateFRE401(ev, findings, recommendations) ==
  LET raw == MetadataField(ev, "relevanceScore")
      \* evidence.metadata?.relevanceScore || 50
      relevanceScore == IF Truthy(raw) THEN raw.v ELSE 50
      \* 45 + Math.round(relevanceScore * 0.8)
      score == 45 + Round(relevanceScore * 8, 10)
  IN IF relevanceScore >= 80
     THEN Scored(score, Append(findings, Str("Evidence highly relevant to case")),
                 recommendations)
     ELSE IF relevanceScore >= 60
     THEN Scored(score, Append(findings, Str("Evidence moderately relevant")),
                 recommendations)
     ELSE Scored(score, Append(findings, Str("Evidence relevance questionable")),
                 Append(recommendations,
                        "Strengthen connection between evidence and case issues"))

evaluateFRE403(ev, findings, recommendations) ==
  IF MetadataField(ev, "prejudicialRisk") = Str("high")
  THEN Scored(70 - 30, Append(findings, Str("High risk of unfair prejudice")),
              Append(recommendations,
                     "Consider limiting instruction or alternative evidence"))
  ELSE IF MetadataField(ev, "prejudicialRisk") = Str("medium")
  THEN Scored(70 - 15, Append(findings, Str("Moderate prejudicial risk")),
              recommendations)
  ELSE Scored(70, findings, recommendations)

(***************************************************************************)
(* The public operations of the engine.                                    *)
(***************************************************************************)
Return(x) == [kind |-> "return", value |-> x, error |-> ""]
Throw(msg) == [kind |-> "throw", value |-> Undef, error |-> msg]

\* variant: the legacy remap of fre-1002 is left out
normalizeRuleIdNoRemap(ruleId) ==
  ReplaceFirst(ReplaceAllChar(ToLowerCase(ruleId), "_", "-"), fre8036, fre803)

normalizeRuleId(ruleId) ==
  ReplaceFirst(
    ReplaceFirst(ReplaceAllChar(ToLowerCase(ruleId), "_", "-"), fre1002, fre1001),
    fre8036, fre803)

\* variant: the criteria lookup is not checked
RuleMissingOnly(rule, crit) == rule = Undef

\* !rule || !criteria
RuleOrCriteriaMissing(rule, crit) == rule = Undef \/ crit = Undef

\* variant: the switch has no case for fre-403
DispatchWithoutFre403(ruleId, normalizedRuleId, ev) ==
  CASE normalizedRuleId = fre901 -> evaluateFRE901(ev, <<>>, <<>>)
    [] normalizedRuleId = fre902 -> evaluateFRE902(ev, <<>>, <<>>)
    [] normalizedRuleId = fre1001 -> evaluateFRE1002(ev, <<>>, <<>>)
    [] normalizedRuleId = fre803 -> evaluateFRE803_6(ev, <<>>, <<>>)
    [] normalizedRuleId = fre401 -> evaluateFRE401(ev, <<>>, <<>>)
    [] OTHER ->
         Scored(50,
                <<Obj([type |-> "concern",
                       description |-> "Rule evaluation not fully implemented",
                       impact |-> "medium",
                       ruleReference |-> ruleId])>>,
                <<>>)

\* the switch of evaluateRule
Dispatch(ruleId, normalizedRuleId, ev) ==
  CASE normalizedRuleId = fre901 -> evaluateFRE901(ev, <<>>, <<>>)
    [] normalizedRuleId = fre902 -> evaluateFRE902(ev, <<>>, <<>>)
    [] normalizedRuleId = fre1001 -> evaluateFRE1002(ev, <<>>, <<>>)
    [] normalizedRuleId = fre803 -> evaluateFRE803_6(ev, <<>>, <<>>)
    [] normalizedRuleId = fre401 -> evaluateFRE401(ev, <<>>, <<>>)
    [] normalizedRuleId = fre403 -> evaluateFRE403(ev, <<>>, <<>>)
    [] OTHER ->
         Scored(50,
                <<Obj([type |-> "concern",
                       description |-> "Rule evaluation not fully implemented",
                       impact |-> "medium",
                       ruleReference |-> ruleId])>>,
                <<>>)

\* variant: the score is returned without the cap at maxScore
ComplianceResultUncapped(ruleId, score, maxScore, findings, recommendations) ==
  [ruleId |-> ruleId,
   compliant |-> score >= 70,
   score |-> score,
   maxScore |-> maxScore,
   findings |-> findings,
   recommendations |-> recommendations]

\* the object evaluateRule returns
ComplianceResult(ruleId, score, maxScore, findings, recommendations) ==
  [ruleId |-> ruleId,
   compliant |-> score >= 70,
   score |-> Min(score, maxScore),
   maxScore |-> maxScore,
   findings |-> findings,
   recommendations |-> recommendations]

\* variant: the result carries the normalized id
evaluateRuleNormalizedId(ruleId, ev) ==
  LET normalizedRuleId == normalizeRuleId(ruleId)
      rule == getRuleById(normalizedRuleId)
      crit == getCriteriaForRule(normalizedRuleId)
  IN IF RuleOrCriteriaMissing(rule, crit)
     THEN Throw("Unknown rule")
     ELSE IF crit = Undef
     THEN Throw("TypeError")
     ELSE LET maxScore == SumSeq(crit.scoringFactors)
              e == Dispatch(ruleId, normalizedRuleId, ev)
          IN Return(ComplianceResult(normalizedRuleId, e.score, maxScore,
                                     e.findings, e.recommendations))

evaluateRule(ruleId, ev) ==
  LET normalizedRuleId == normalizeRuleId(ruleId)
      rule == getRuleById(normalizedRuleId)
      crit == getCriteriaForRule(normalizedRuleId)
  IN IF RuleOrCriteriaMissing(rule, crit)
     THEN Throw("Unknown rule")
     ELSE IF crit = Undef
     THEN Throw("TypeError")  \* criteria.scoringFactors of undefined
     ELSE LET maxScore == SumSeq(crit.scoringFactors)
              e == Dispatch(ruleId, normalizedRuleId, ev)
          IN Return(ComplianceResult(ruleId, e.score, maxScore,
                                     e.findings, e.recommendations))

\* variant: the rules in the order of the catalog
applicableRulesCatalogOrder == <<fre901, fre902, fre1001, fre401, fre403, fre803>>

\* variant: the Indiana authentication rule, which has no criteria, is included
applicableRulesWithIndiana ==
  <<fre901, ire901, fre902, fre1001, fre803, fre401, fre403>>

applicableRules == <<fre901, fre902, fre1001, fre803, fre401, fre403>>

\* applicableRules.map(evaluateRule): the first throw ends the map
analyzeEvidence(ev) ==
  LET rs == [i \in 1..Len(applicableRules) |-> evaluateRule(applicableRules[i], ev)]
  IN IF \E i \in 1..Len(rs) : rs[i].kind = "throw"
     THEN rs[CHOOSE i \in 1..Len(rs) :
               /\ rs[i].kind = "throw"
               /\ \A j \in 1..(i - 1) : rs[j].kind = "return"]
     ELSE Return([i \in 1..Len(rs) |-> rs[i].value])

RECURSIVE SumScore(_)
SumScore(results) ==
  IF results = <<>> THEN 0 ELSE Head(results).score + SumScore(Tail(results))

RECURSIVE SumMaxScore(_)
SumMaxScore(results) ==
  IF results = <<>> THEN 0
  ELSE Head(results).maxScore + SumMaxScore(Tail(results))

\* variant: the percentage is truncated instead of rounded
OverallOfTruncated(totalScore, maxPossibleScore) ==
  IF maxPossibleScore > 0
  THEN (totalScore * 100) \div maxPossibleScore
  ELSE 0

\* Math.round((totalScore / maxPossibleScore) * 100), or 0
OverallOf(totalScore, maxPossibleScore) ==
  IF maxPossibleScore > 0
  THEN Round(totalScore * 100, maxPossibleScore)
  ELSE 0

calculateOverallCompliance(ev) ==
  LET a == analyzeEvidence(ev)
  IN IF a.kind = "throw" THEN a
     ELSE Return(OverallOf(SumScore(a.value), SumMaxScore(a.value)))

\* variant: the ids are normalized before the lookup
generateCitationsNormalized(ruleIds) ==
  LET found == [i \in 1..Len(ruleIds) |-> getRuleById(normalizeRuleId(ruleIds[i]))]
      kept == SelectSeq(found, LAMBDA rule : rule # Undef)
  IN Return([i \in 1..Len(kept) |-> kept[i].citation])

\* map to the rules, filter out the undefined ones, map to their citations
generateCitations(ruleIds) ==
  LET found == [i \in 1..Len(ruleIds) |-> getRuleById(ruleIds[i])]
      kept == SelectSeq(found, LAMBDA rule : rule # Undef)
  IN Return([i \in 1..Len(kept) |-> kept[i].citation])

(***************************************************************************)
(* EvidenceAnalyzer (evidenceAnalyzer.ts).  Its metadata preservation      *)
(* score is a multiple of 6.25 and its overall score a multiple of 1/16,   *)
(* so every number of the analyzer is kept in sixteenths of a point; the   *)
(* doubles the code computes with represent these values exactly at the    *)
(* comparisons it makes.  The evidence id and the generatedAt time stamp   *)
(* of a result are left out.                                               *)
(***************************************************************************)
Pts(n) == 16 * n

Finding(type, description, impact, ruleReference) ==
  Obj([type |-> type, description |-> description, impact |-> impact,
       ruleReference |-> ruleReference])

AnalyzerFields ==
  {"fileName", "fileSize", "createdDate", "modifiedDate", "hashMD5",
   "hashSHA256", "digitalSignature", "deviceInfo", "softwareVersion"}

analyzeChainOfCustody(custody) ==
  LET complete ==
        IF custody.isComplete
        THEN Scored(Pts(15),
                    <<Finding("strength", "Complete chain of custody documented",
                              "medium", "FRE 901(b)(1)")>>,
                    <<>>)
        ELSE Scored(0,
                    <<Finding("weakness", "Chain of custody gaps identified: ",
                              "high", "FRE 901(b)(1)")>>,
                    <<"Document all gaps in chain of custody and provide explanations">>)
      n == Len(custody.entries)
      hasCollection == \E i \in 1..n : custody.entries[i].action = "collected"
      hasSignatures == \A i \in 1..n : Truthy(custody.entries[i].signature)
      hasWitnesses == \E i \in 1..n : Truthy(custody.entries[i].witnessSignature)
      score == complete.score + (IF hasCollection THEN Pts(3) ELSE 0)
                 + (IF hasSignatures THEN Pts(4) ELSE 0)
                 + (IF hasWitnesses THEN Pts(3) ELSE 0)
      r1 == IF ~hasCollection
            THEN Append(complete.recommendations,
                        "Document initial collection of evidence")
            ELSE complete.recommendations
      r2 == IF ~hasSignatures
            THEN Append(r1, "Ensure all custody transfers are signed")
            ELSE r1
  IN Scored(score, complete.findings, r2)

analyzeTechnicalAuthentication(metadata) ==
  LET hash ==
        IF Truthy(metadata.hashSHA256) \/ Truthy(metadata.hashMD5)
        THEN Scored(Pts(10),
                    <<Finding("strength",
                              "Cryptographic hash values present for integrity verification",
                              "medium", "FRE 901(b)(9)")>>,
                    <<>>)
        ELSE Scored(0,
                    <<Finding("missing",
                              "No cryptographic hash values for integrity verification",
                              "high", "FRE 901(b)(9)")>>,
                    <<"Generate and document SHA-256 hash values for all digital evidence">>)
      sig ==
        IF Truthy(metadata.digitalSignature)
        THEN Scored(hash.score + Pts(8),
                    Append(hash.findings,
                           Finding("strength", "Digital signature present",
                                   "medium", "FRE 902(14)")),
                    hash.recommendations)
        ELSE Scored(hash.score, hash.findings,
                    Append(hash.recommendations,
                           "Consider implementing digital signatures for evidence authentication"))
  IN IF Truthy(metadata.createdDate) /\ Truthy(metadata.modifiedDate)
     THEN Scored(sig.score + Pts(7),
                 Append(sig.findings,
                        Finding("strength",
                                "Creation and modification timestamps preserved",
                                "low", "FRE 901(b)(4)")),
                 sig.recommendations)
     ELSE Scored(sig.score, sig.findings,
                 Append(sig.recommendations,
                        "Preserve all available timestamp information"))

analyzeMetadataPreservation(metadata) ==
  LET requiredFields == <<"fileName", "fileSize", "createdDate", "modifiedDate">>
      presentFields ==
        SelectSeq(requiredFields, LAMBDA field : metadata[field] # Undef)
      score == (Len(presentFields) * Pts(25)) \div Len(requiredFields)
  IN IF score >= Pts(20)
     THEN Scored(score,
                 <<Finding("strength", "Essential metadata fields preserved",
                           "medium", "FRE 901(b)(4)")>>,
                 <<>>)
     ELSE Scored(score,
                 <<Finding("weakness", "Missing essential metadata fields",
                           "medium", "FRE 901(b)(4)")>>,
                 <<"Preserve all available metadata during evidence collection">>)

analyzeCollectionProcess(item) ==
  LET device ==
        IF Truthy(item.metadata.deviceInfo)
        THEN Scored(Pts(15) + Pts(5),
                    <<Finding("strength", "Device information documented",
                              "low", "FRE 901(b)(9)")>>,
                    <<>>)
        ELSE Scored(Pts(15), <<>>, <<>>)
  IN IF Truthy(item.metadata.softwareVersion)
     THEN Scored(device.score + Pts(5),
                 Append(device.findings,
                        Finding("strength",
                                "Collection software version documented",
                                "low", "FRE 901(b)(9)")),
                 device.recommendations)
     ELSE device

\* a ComplianceResult as the analyzer's four analyses build it
AnalyzerResult(ruleId, compliant, score, maxScore, findings, recommendations) ==
  [ruleId |-> ruleId, compliant |-> compliant, score |-> score,
   maxScore |-> maxScore, findings |-> findings,
   recommendations |-> recommendations]

analyzeAuthentication(item) ==
  LET ruleId == IF item.jurisdiction = "Indiana" THEN ire901 ELSE fre901
      custodyScore == analyzeChainOfCustody(item.chainOfCustody)
      techScore == analyzeTechnicalAuthentication(item.metadata)
      metadataScore == analyzeMetadataPreservation(item.metadata)
      collectionScore == analyzeCollectionProcess(item)
      score == custodyScore.score + techScore.score + metadataScore.score
                 + collectionScore.score
  IN AnalyzerResult(ruleId, score >= Pts(70), score, Pts(100),
                    custodyScore.findings \o techScore.findings
                      \o metadataScore.findings \o collectionScore.findings,
                    custodyScore.recommendations \o techScore.recommendations
                      \o metadataScore.recommendations
                      \o collectionScore.recommendations)

\* variant: the original's strength is a medium-impact finding
analyzeBestEvidenceRuleMediumImpact(item) ==
  LET score == IF item.isOriginal THEN Pts(100) ELSE Pts(60)
  IN IF item.isOriginal
     THEN AnalyzerResult(fre1001, score >= Pts(60), score, Pts(100),
                         <<Finding("strength", "Original evidence presented",
                                   "medium", "FRE 1002")>>,
                         <<>>)
     ELSE AnalyzerResult(fre1001, score >= Pts(60), score, Pts(100),
                         <<Finding("concern",
                                   "Copy of evidence presented - original required unless exception applies",
                                   "medium", "FRE 1002")>>,
                         <<"Document reason why original is not available or provide original if possible">>)

analyzeBestEvidenceRule(item) ==
  LET score == IF item.isOriginal THEN Pts(100) ELSE Pts(60)
  IN IF item.isOriginal
     THEN AnalyzerResult(fre1001, score >= Pts(60), score, Pts(100),
                         <<Finding("strength", "Original evidence presented",
                                   "high", "FRE 1002")>>,
                         <<>>)
     ELSE AnalyzerResult(fre1001, score >= Pts(60), score, Pts(100),
                         <<Finding("concern",
                                   "Copy of evidence presented - original required unless exception applies",
                                   "medium", "FRE 1002")>>,
                         <<"Document reason why original is not available or provide original if possible">>)

analyzeRelevance(item) ==
  AnalyzerResult(fre401, TRUE, Pts(80), Pts(100),
                 <<Finding("concern",
                           "Relevance analysis requires case-specific context",
                           "medium", "FRE 401")>>,
                 <<"Provide detailed explanation of how evidence relates to facts in issue",
                   "Consider FRE 403 balancing test for probative value vs. prejudicial effect">>)

analyzeHearsay(item) ==
  AnalyzerResult(fre803, TRUE, Pts(75), Pts(100),
                 <<Finding("concern",
                           "Hearsay analysis requires examination of specific statements within evidence",
                           "medium", "FRE 801")>>,
                 <<"Identify any out-of-court statements offered for truth of matter asserted",
                   "Determine if any hearsay exceptions apply (FRE 803, 804, 807)">>)

HighImpact(findings) == SelectSeq(findings, LAMBDA f : f.v.impact = "high")

\* variant: Medium tolerates no high-impact issue
calculateAdmissibilityLikelihoodStrict(score, criticalIssues) ==
  LET highImpactIssues == Len(HighImpact(criticalIssues))
  IN IF score >= Pts(85) /\ highImpactIssues = 0 THEN "High"
     ELSE IF score >= Pts(70) /\ highImpactIssues < 1 THEN "Medium"
     ELSE "Low"

calculateAdmissibilityLikelihood(score, criticalIssues) ==
  LET highImpactIssues == Len(HighImpact(criticalIssues))
  IN IF score >= Pts(85) /\ highImpactIssues = 0 THEN "High"
     ELSE IF score >= Pts(70) /\ highImpactIssues <= 1 THEN "Medium"
     ELSE "Low"

\* [...new Set(list)]: the first occurrence of each element, in order
RECURSIVE Distinct(_)
Distinct(list) ==
  IF list = <<>> THEN <<>>
  ELSE LET front == SubSeq(list, 1, Len(list) - 1)
           last == list[Len(list)]
       IN IF \E i \in 1..Len(front) : front[i] = last
          THEN Distinct(front)
          ELSE Append(Distinct(front), last)

RECURSIVE ConcatAll(_)
ConcatAll(lists) ==
  IF lists = <<>> THEN <<>> ELSE Head(lists) \o ConcatAll(Tail(lists))

\* EvidenceAnalyzer.analyzeEvidence
analyzeEvidenceItem(item) ==
  LET ruleCompliance ==
        <<analyzeAuthentication(item), analyzeBestEvidenceRule(item),
          analyzeRelevance(item), analyzeHearsay(item)>>
      n == Len(ruleCompliance)
      criticalIssues ==
        ConcatAll([i \in 1..n |-> HighImpact(ruleCompliance[i].findings)])
      recommendations ==
        ConcatAll([i \in 1..n |-> ruleCompliance[i].recommendations])
      totalScore == SumSeq([i \in 1..n |-> ruleCompliance[i].score])
      maxScore == SumSeq([i \in 1..n |-> ruleCompliance[i].maxScore])
      overallScore ==
        IF maxScore > 0 THEN (totalScore * Pts(100)) \div maxScore ELSE 0
      citations ==
        generateCitations([i \in 1..n |-> ruleCompliance[i].ruleId]).value
  IN Return([overallScore |-> overallScore,
             maxScore |-> maxScore,
             admissibilityLikelihood |->
               calculateAdmissibilityLikelihood(overallScore, criticalIssues),
             ruleCompliance |-> ruleCompliance,
             criticalIssues |-> criticalIssues,
             recommendations |-> Distinct(recommendations),
             citations |-> citations])

(***************************************************************************)
(* The API key holder (geminiService): currentApiKey and ai are module     *)
(* variables, the key is persisted as the item 'gemini_api_key' of the     *)
(* browser's local storage.  A GoogleGenAI client is the key it was made   *)
(* with.  Every operation returns what the code returns together with the  *)
(* three values it leaves behind.                                          *)
(***************************************************************************)
GoogleGenAI(apiKey) == Obj([apiKey |-> apiKey])

\* localStorage.getItem: null for an item that is not there
getItem(storage, item) ==
  IF item \in DOMAIN storage THEN storage[item] ELSE Null

setItem(storage, item, value) ==
  [i \in DOMAIN storage \cup {item} |-> IF i = item THEN value ELSE storage[i]]

removeItem(storage, item) ==
  [i \in DOMAIN storage \ {item} |-> storage[i]]

NoStorage == [i \in {} |-> Null]

KeyState(value, key, client, storage) ==
  [value |-> value, currentApiKey |-> key, ai |-> client,
   localStorage |-> storage]

setApiKey(apiKey, key, client, storage) ==
  KeyState(Undef, apiKey, GoogleGenAI(apiKey),
           setItem(storage, "gemini_api_key", apiKey))

getApiKey(key, client, storage) ==
  IF Truthy(key) THEN KeyState(key, key, client, storage)
  ELSE LET storedKey == getItem(storage, "gemini_api_key")
       IN IF Truthy(storedKey)
          THEN KeyState(storedKey, storedKey, GoogleGenAI(storedKey), storage)
          ELSE KeyState(Null, key, client, storage)

\* variant: the stored key is left in local storage
clearApiKeyKeepingItem(key, client, storage) ==
  KeyState(Undef, Null, Null, storage)

clearApiKey(key, client, storage) ==
  KeyState(Undef, Null, Null, removeItem(storage, "gemini_api_key"))

isApiKeyConfigured(key, client, storage) ==
  LET got == getApiKey(key, client, storage)
  IN KeyState(Bool(Truthy(got.value)), got.currentApiKey, got.ai,
              got.localStorage)

\* the module as loaded: it takes the key of the environment, if there is
\* one, and otherwise the item an earlier session stored, if there is one
KeyHolderLoaded(envApiKey, storedKey) ==
  LET storage == IF storedKey = Null THEN NoStorage
                 ELSE setItem(NoStorage, "gemini_api_key", storedKey)
      fromEnv == IF Truthy(envApiKey)
                 THEN KeyState(Undef, envApiKey, GoogleGenAI(envApiKey), storage)
                 ELSE KeyState(Undef, Null, Null, storage)
      loaded == IF Truthy(storedKey) /\ ~Truthy(fromEnv.currentApiKey)
                THEN setApiKey(storedKey, fromEnv.currentApiKey, fromEnv.ai,
                               storage)
                ELSE fromEnv
  IN /\ currentApiKey = loaded.currentApiKey
     /\ ai = loaded.ai
     /\ localStorage = loaded.localStorage
     /\ history = <<>>

(***************************************************************************)
(* OptimizedGeminiService as constructed.                                  *)
(***************************************************************************)
NoLoops == [i \in {} |-> Null]

ServiceConstructed ==
  /\ requestQueue = <<>>
  /\ isProcessingQueue = FALSE
  /\ loops = NoLoops
  /\ requests = NoLoops

(***************************************************************************)
(* The state machine: one engine, one evidence record under assessment,    *)
(* and the outcome of the caller's latest call.                            *)
(***************************************************************************)
PresentFields(m) == {f \in MetaFields : m[f] # Undef}

\* evidence records callers construct: no metadata bag, an empty one, or one
\* with up to MaxPresent fields present
Evidences ==
  {[metadata |-> Undef]} \cup
  {[metadata |-> Obj(m)] :
     m \in {b \in MetadataBags : Cardinality(PresentFields(b)) <= MaxPresent}}

\* rule ids callers pass: catalog ids, legacy ids, case and underscore
\* variants, and ids that are not rules
RuleIds ==
  {fre901, fre902, fre1001, fre803, fre401, fre403,
   FRE_901, FRE_902, FRE_1002, FRE_803_6, FRE_401, FRE_403,
   fre1002, fre8036, ire901, INVALID_RULE, notARealRule,
   <<"F","r","e","_","9","0","1">>,
   <<"f","r","e","_","8","0","3","-","6">>,
   <<"F","R","E","-","4","0","3">>,
   <<"f","r","E","_","1","0","0","2">>,
   <<"I","R","E","_","9","0","1">>,
   <<"f","r","e","9","0","1">>}

NoCall == [op |-> "none", ruleId |-> <<>>, kind |-> "none",
           value |-> Undef, error |-> ""]

Call(op, ruleId, o) ==
  [op |-> op, ruleId |-> ruleId, kind |-> o.kind, value |-> o.value,
   error |-> o.error]

Init ==
  /\ rules = ConstructedRules
  /\ criteria = ConstructedCriteria
  /\ evidence \in Evidences
  /\ outcome = NoCall
  /\ KeyHolderLoaded(Null, Null)
  /\ ServiceConstructed

\* The caller is sequential: it makes one call, looks at what came back and
\* lets go of it before its next call.
Idle == outcome.op = "none"

\* variant: an accepted id is remembered in the catalog under the
\* spelling the caller used
EvaluateRuleRememberingId(ruleId) ==
  /\ Idle
  /\ outcome' = Call("evaluateRule", ruleId, evaluateRule(ruleId, evidence))
  /\ rules' = IF evaluateRule(ruleId, evidence).kind = "return"
                 /\ ruleId \notin DOMAIN rules
              THEN [id \in DOMAIN rules \cup {ruleId} |->
                      IF id = ruleId THEN rules[normalizeRuleId(ruleId)]
                      ELSE rules[id]]
              ELSE rules
  /\ UNCHANGED <<criteria, evidence, keyVars, serviceVars>>

EvaluateRule(ruleId) ==
  /\ Idle
  /\ outcome' = Call("evaluateRule", ruleId, evaluateRule(ruleId, evidence))
  /\ UNCHANGED <<rules, criteria, evidence, keyVars, serviceVars>>

AnalyzeEvidence ==
  /\ Idle
  /\ outcome' = Call("analyzeEvidence", <<>>, analyzeEvidence(evidence))
  /\ UNCHANGED <<rules, criteria, evidence, keyVars, serviceVars>>

CalculateOverallCompliance ==
  /\ Idle
  /\ outcome' = Call("calculateOverallCompliance", <<>>,
                     calculateOverallCompliance(evidence))
  /\ UNCHANGED <<rules, criteria, evidence, keyVars, serviceVars>>

\* the caller empties the array analyzeEvidence returned (results.length = 0)
TruncateResults ==
  /\ outcome.op = "analyzeEvidence"
  /\ outcome.kind = "return"
  /\ outcome' = Call("results.length = 0", <<>>, Return(<<>>))
  /\ UNCHANGED <<rules, criteria, evidence, keyVars, serviceVars>>

\* the caller drops what the latest call returned or threw
ReleaseResult ==
  /\ ~Idle
  /\ outcome' = NoCall
  /\ UNCHANGED <<rules, criteria, evidence, keyVars, serviceVars>>

Next ==
  \/ \E ruleId \in RuleIds : EvaluateRule(ruleId)
  \/ AnalyzeEvidence
  \/ CalculateOverallCompliance
  \/ TruncateResults
  \/ ReleaseResult

Spec == Init /\ [][Next]_vars

(***************************************************************************)
(* The catalog lookups: a caller asks the constructed engine for single    *)
(* rules and for the citations of lists of rule ids.                       *)
(***************************************************************************)
MaxIds == 3

\* ids callers look up: catalog ids of both jurisdictions, a legacy id that
\* only normalization would resolve, and an id that is not a rule
LookupIds == {fre901, fre803, ire901, FRE_901, notARealRule}

RECURSIVE SeqsUpTo(_, _)
SeqsUpTo(S, n) ==
  IF n = 0 THEN {<<>>}
  ELSE LET shorter == SeqsUpTo(S, n - 1)
       IN shorter \cup {Append(q, x) : q \in shorter, x \in S}

IdLists == SeqsUpTo(LookupIds, MaxIds)

InitCatalog ==
  /\ rules = ConstructedRules
  /\ criteria = ConstructedCriteria
  /\ evidence = [metadata |-> Undef]
  /\ outcome = NoCall
  /\ KeyHolderLoaded(Null, Null)
  /\ ServiceConstructed

GetRuleById(ruleId) ==
  /\ Idle
  /\ outcome' = Call("getRuleById", ruleId, Return(getRuleById(ruleId)))
  /\ UNCHANGED <<rules, criteria, evidence, keyVars, serviceVars>>

GenerateCitations(ruleIds) ==
  /\ Idle
  /\ outcome' = Call("generateCitations", ruleIds, generateCitations(ruleIds))
  /\ UNCHANGED <<rules, criteria, evidence, keyVars, serviceVars>>

NextCatalog ==
  \/ \E ruleId \in LookupIds : GetRuleById(ruleId)
  \/ \E ruleIds \in IdLists : GenerateCitations(ruleIds)
  \/ ReleaseResult

SpecCatalog == InitCatalog /\ [][NextCatalog]_vars

(***************************************************************************)
(* The analyzer: one EvidenceAnalyzer, which owns an engine of its own,    *)
(* and one evidence item under analysis.                                   *)
(***************************************************************************)
CustodyEntries ==
  [action : {"collected", "transferred"},
   signature : {Undef, Str("J. Smith")},
   witnessSignature : {Undef, Str("A. Jones")}]

ChainsOfCustody ==
  [entries : SeqsUpTo(CustodyEntries, MaxCustody),
   isComplete : BOOLEAN,
   gaps : {<<>>}]

\* metadata of an evidence item: each field absent or present
AnalyzerMetadata == [AnalyzerFields -> {Undef, Str("present")}]

EvidenceItems ==
  [metadata : AnalyzerMetadata,
   chainOfCustody : ChainsOfCustody,
   isOriginal : BOOLEAN,
   jurisdiction : {"Federal", "Indiana"}]

InitAnalyzer ==
  /\ rules = ConstructedRules
  /\ criteria = ConstructedCriteria
  /\ evidence \in EvidenceItems
  /\ outcome = NoCall
  /\ KeyHolderLoaded(Null, Null)
  /\ ServiceConstructed

AnalyzeEvidenceItem ==
  /\ Idle
  /\ outcome' = Call("EvidenceAnalyzer.analyzeEvidence", <<>>,
                     analyzeEvidenceItem(evidence))
  /\ UNCHANGED <<rules, criteria, evidence, keyVars, serviceVars>>

NextAnalyzer ==
  \/ AnalyzeEvidenceItem
  \/ ReleaseResult

SpecAnalyzer == InitAnalyzer /\ [][NextAnalyzer]_vars

(***************************************************************************)
(* The key holder in use: callers set, read, test and clear the key.       *)
(***************************************************************************)
MaxCalls == 4

\* keys the configuration screens pass on: they accept non-empty keys only
ApiKeys == {Str("AIzaSy-first-key-000000"), Str("AIzaSy-second-key-00000")}

EnvApiKeys == {Null, Str("AIzaSy-environment-key0")}

StoredApiKeys == {Null, Str("AIzaSy-earlier-session0")}

InitKeys ==
  /\ rules = ConstructedRules
  /\ criteria = ConstructedCriteria
  /\ evidence = [metadata |-> Undef]
  /\ outcome = NoCall
  /\ \E envApiKey \in EnvApiKeys, storedKey \in StoredApiKeys :
       KeyHolderLoaded(envApiKey, storedKey)
  /\ ServiceConstructed

\* a call of the key holder: its state after the call, and the call with
\* what it returned appended to the history
KeyCall(op, apiKey, after) ==
  /\ Len(history) < MaxCalls
  /\ currentApiKey' = after.currentApiKey
  /\ ai' = after.ai
  /\ localStorage' = after.localStorage
  /\ history' = Append(history, [op |-> op, apiKey |-> apiKey,
                                 value |-> after.value])
  /\ UNCHANGED <<rules, criteria, evidence, outcome, serviceVars>>

SetApiKey(apiKey) ==
  KeyCall("setApiKey", apiKey,
          setApiKey(apiKey, currentApiKey, ai, localStorage))

GetApiKey == KeyCall("getApiKey", Undef, getApiKey(currentApiKey, ai, localStorage))

ClearApiKey ==
  KeyCall("clearApiKey", Undef, clearApiKey(currentApiKey, ai, localStorage))

IsApiKeyConfigured ==
  KeyCall("isApiKeyConfigured", Undef,
          isApiKeyConfigured(currentApiKey, ai, localStorage))

NextKeys ==
  \/ \E apiKey \in ApiKeys : SetApiKey(apiKey)
  \/ GetApiKey
  \/ ClearApiKey
  \/ IsApiKeyConfigured

SpecKeys == InitKeys /\ [][NextKeys]_vars

(***************************************************************************)
(* OptimizedGeminiService: makeAPIRequest, processQueue and                *)
(* executeWithRetry.  A request is the closure makeAPIRequest pushes on    *)
(* the queue together with the promise it returns; requests are numbered   *)
(* in the order of the makeAPIRequest calls.  A loop is an activation of   *)
(* processQueue that passed its guard, named after the request whose       *)
(* makeAPIRequest call made it.  Messages and codes of errors are          *)
(* character sequences, so that includes() is computed as a substring      *)
(* search.  Whether checkRateLimit lets a request pass depends on the      *)
(* clock and on the configured limits and is left open; the usage          *)
(* statistics are left out.                                                *)
(***************************************************************************)
MaxRequests == 2

maxRetries == 3

\* String.prototype.includes
Includes(s, pat) == \E i \in 1..Len(s) : Occurs(s, pat, i)

retryableErrors ==
  <<<<"R","A","T","E","_","L","I","M","I","T","_","E","X","C","E","E","D","E","D">>,
    <<"T","I","M","E","O","U","T">>,
    <<"I","N","T","E","R","N","A","L","_","E","R","R","O","R">>,
    <<"S","E","R","V","I","C","E","_","U","N","A","V","A","I","L","A","B","L","E">>>>

Error(message, code) == [message |-> message, code |-> code]

\* error.message?.includes(errorType) || error.code?.includes(errorType)
MentionsType(error, errorType) ==
  \/ IF error.message = Undef THEN FALSE
     ELSE Includes(error.message.v, errorType)
  \/ IF error.code = Undef THEN FALSE
     ELSE Includes(error.code.v, errorType)

\* variant: every error is retried
isRetryableErrorAlways(error) ==
  \E i \in 1..Len(retryableErrors) :
    MentionsType(error, retryableErrors[i]) \/ TRUE

isRetryableError(error) ==
  \E i \in 1..Len(retryableErrors) : MentionsType(error, retryableErrors[i])

\* new Error('Rate limit exceeded. Please try again later.')
RateLimitError ==
  Error(Str(<<"R","a","t","e"," ","l","i","m","i","t"," ","e","x","c","e","e","d","e","d","."," ","P","l","e","a","s","e"," ","t","r","y"," ","a","g","a","i","n"," ","l","a","t","e","r",".">>),
        Undef)

\* errors requestFn rejects with: retryable by its message, retryable by its
\* code, and not retryable
TimeoutError == Error(Str(<<"T","I","M","E","O","U","T">>), Undef)
QuotaError == Error(Str(<<"q","u","o","t","a">>), Str(<<"R","A","T","E","_","L","I","M","I","T","_","E","X","C","E","E","D","E","D">>))
InvalidKeyError == Error(Str(<<"A","P","I"," ","k","e","y"," ","n","o","t"," ","v","a","l","i","d">>), Undef)

RequestErrors == {TimeoutError, QuotaError, InvalidKeyError}

\* a request as makeAPIRequest leaves it on the queue: order is its place in
\* the order of starts and loop the loop that started it, once it has started
QueuedRequest ==
  [status |-> "queued", attempt |-> 0, calls |-> 0, lastError |-> Undef,
   error |-> Undef, order |-> 0, loop |-> 0]

SettledStatus == {"resolved", "rejected"}

ExecutingStatus == {"requestFn", "backoff"}

\* the closure of makeAPIRequest up to its first await: it rejects when
\* checkRateLimit fails, and otherwise enters executeWithRetry, whose first
\* attempt calls requestFn
startRequest(request, allowed, order, loop) ==
  IF ~allowed
  THEN [request EXCEPT !.status = "rejected", !.error = RateLimitError,
                       !.order = order, !.loop = loop]
  ELSE [request EXCEPT !.status = "requestFn", !.attempt = 0, !.calls = 1,
                       !.order = order, !.loop = loop]

\* executeWithRetry when requestFn has rejected with error: after the last
\* attempt it throws lastError, on an error that is not retryable it throws
\* at once, otherwise it awaits the backoff delay; the closure turns a throw
\* into reject(error)
catchError(request, error) ==
  IF request.attempt = maxRetries
  THEN [request EXCEPT !.status = "rejected", !.lastError = error,
                       !.error = error]
  ELSE IF ~isRetryableError(error)
  THEN [request EXCEPT !.status = "rejected", !.lastError = error,
                       !.error = error]
  ELSE [request EXCEPT !.status = "backoff", !.lastError = error]

\* executeWithRetry when the backoff delay is over: the next attempt
nextAttempt(request) ==
  [request EXCEPT !.status = "requestFn", !.attempt = @ + 1, !.calls = @ + 1]

\* variant: the guard of processQueue looks at the queue only
processQueueReturnsAtOnceOnEmpty(processing, queue) == Len(queue) = 0

\* if (this.isProcessingQueue || this.requestQueue.length === 0) return
processQueueReturnsAtOnce(processing, queue) == processing \/ Len(queue) = 0

Started(reqs) == {id \in DOMAIN reqs : reqs[id].order > 0}

\* request = this.requestQueue.shift(); await request()
ShiftAndStart(l, queue, reqs, allowed) ==
  /\ requestQueue' = Tail(queue)
  /\ requests' =
       [reqs EXCEPT ![Head(queue)] =
          startRequest(@, allowed, Cardinality(Started(reqs)) + 1, l)]
  /\ loops' = [i \in DOMAIN loops \cup {l} |->
                 IF i = l THEN [pc |-> "request", request |-> Head(queue)]
                 ELSE loops[i]]

InitService ==
  /\ rules = ConstructedRules
  /\ criteria = ConstructedCriteria
  /\ evidence = [metadata |-> Undef]
  /\ outcome = NoCall
  /\ KeyHolderLoaded(Null, Null)
  /\ ServiceConstructed

\* makeAPIRequest: push the closure, call processQueue
MakeAPIRequest(allowed) ==
  LET id == Cardinality(DOMAIN requests) + 1
      reqs == [i \in DOMAIN requests \cup {id} |->
                 IF i = id THEN QueuedRequest ELSE requests[i]]
      queue == Append(requestQueue, id)
  IN /\ id <= MaxRequests
     /\ IF processQueueReturnsAtOnce(isProcessingQueue, queue)
        THEN /\ requestQueue' = queue
             /\ requests' = reqs
             /\ UNCHANGED <<isProcessingQueue, loops>>
        ELSE /\ isProcessingQueue' = TRUE
             /\ ShiftAndStart(id, queue, reqs, allowed)
     /\ UNCHANGED <<rules, criteria, evidence, outcome, keyVars>>

\* requestFn resolves: executeWithRetry returns and the closure resolves
RequestFnResolves(id) ==
  /\ id \in DOMAIN requests
  /\ requests[id].status = "requestFn"
  /\ requests' = [requests EXCEPT ![id].status = "resolved"]
  /\ UNCHANGED <<rules, criteria, evidence, outcome, keyVars,
                 requestQueue, isProcessingQueue, loops>>

\* requestFn rejects
RequestFnRejects(id, error) ==
  /\ id \in DOMAIN requests
  /\ requests[id].status = "requestFn"
  /\ requests' = [requests EXCEPT ![id] = catchError(@, error)]
  /\ UNCHANGED <<rules, criteria, evidence, outcome, keyVars,
                 requestQueue, isProcessingQueue, loops>>

\* the backoff delay of executeWithRetry is over
BackoffElapsed(id) ==
  /\ id \in DOMAIN requests
  /\ requests[id].status = "backoff"
  /\ requests' = [requests EXCEPT ![id] = nextAttempt(@)]
  /\ UNCHANGED <<rules, criteria, evidence, outcome, keyVars,
                 requestQueue, isProcessingQueue, loops>>

\* processQueue resumes after await request() and starts its 100 ms delay
LoopResumes(l) ==
  /\ l \in DOMAIN loops
  /\ loops[l].pc = "request"
  /\ requests[loops[l].request].status \in SettledStatus
  /\ loops' = [loops EXCEPT ![l].pc = "delay"]
  /\ UNCHANGED <<rules, criteria, evidence, outcome, keyVars,
                 requestQueue, isProcessingQueue, requests>>

\* the 100 ms delay is over: the while condition is tested again
QueueDelayElapsed(l, allowed) ==
  /\ l \in DOMAIN loops
  /\ loops[l].pc = "delay"
  /\ IF Len(requestQueue) > 0
     THEN /\ ShiftAndStart(l, requestQueue, requests, allowed)
          /\ UNCHANGED isProcessingQueue
     ELSE /\ isProcessingQueue' = FALSE
          /\ loops' = [i \in DOMAIN loops \ {l} |-> loops[i]]
          /\ UNCHANGED <<requestQueue, requests>>
  /\ UNCHANGED <<rules, criteria, evidence, outcome, keyVars>>

\* what the event loop does once it can: promises settle, timers fire
ServiceProgress ==
  \/ \E id \in 1..MaxRequests : RequestFnResolves(id)
  \/ \E id \in 1..MaxRequests, error \in RequestErrors :
       RequestFnRejects(id, error)
  \/ \E id \in 1..MaxRequests : BackoffElapsed(id)
  \/ \E l \in 1..MaxRequests : LoopResumes(l)
  \/ \E l \in 1..MaxRequests, allowed \in BOOLEAN : QueueDelayElapsed(l, allowed)

NextService ==
  \/ \E allowed \in BOOLEAN : MakeAPIRequest(allowed)
  \/ ServiceProgress

\* every call of requestFn settles, every timer fires and every continuation
\* that is ready runs
SpecService == InitService /\ [][NextService]_vars /\ WF_vars(ServiceProgress)

(***************************************************************************)
(* Helpers of the properties.                                              *)
(***************************************************************************)
Returned(op) == outcome.op = op /\ outcome.kind = "return"

CatalogIds ==
  {FEDERAL_RULES[i].id : i \in 1..Len(FEDERAL_RULES)} \cup
  {INDIANA_RULES[i].id : i \in 1..Len(INDIANA_RULES)}

CriteriaIds == {ANALYSIS_CRITERIA[i].ruleId : i \in 1..Len(ANALYSIS_CRITERIA)}

\* the sum of the first k numbers of f
RECURSIVE SumFirst(_, _)
SumFirst(f, k) == IF k = 0 THEN 0 ELSE f[k] + SumFirst(f, k - 1)

\* sum of maxPoints over the scoring factors ANALYSIS_CRITERIA lists for id
MaxPointsOf(id) ==
  LET c == ANALYSIS_CRITERIA[CHOOSE i \in 1..Len(ANALYSIS_CRITERIA) :
                               ANALYSIS_CRITERIA[i].ruleId = id]
  IN SumFirst(c.scoringFactors, Len(c.scoringFactors))

HasMetadata(ev) == ev.metadata.t = "object"

\* the evidence record with one metadata field replaced
WithField(ev, f, val) ==
  [metadata |-> Obj([ev.metadata.v EXCEPT ![f] = val])]

\* what two results must share to be equivalent
SameVerdict(a, b) ==
  /\ a.score = b.score
  /\ a.maxScore = b.maxScore
  /\ a.compliant = b.compliant
  /\ a.findings = b.findings
  /\ a.recommendations = b.recommendations

C2_ThresholdConsistency ==
  Returned("evaluateRule") =>
    (outcome.value.compliant <=>
       outcome.value.score * 100 >= 70 * outcome.value.maxScore)

(***************************************************************************)
(* C3: evaluateRule throws the unknown-rule error exactly when the         *)
(* normalized id has no rule or no criteria in the catalog (ire-901,       *)
(* INVALID_RULE and not-a-real-rule among them), and returns a result in   *)
(* every other case.                                                       *)
(***************************************************************************)
C3_UnknownRuleExactly ==
  outcome.op = "evaluateRule" =>
    LET n == normalizeRuleId(outcome.ruleId)
        unknown == n \notin CatalogIds \/ n \notin CriteriaIds
    IN /\ unknown => outcome.kind = "throw" /\ outcome.error = "Unknown rule"
       /\ ~unknown => outcome.kind = "return" /\ outcome.value.ruleId = outcome.ruleId
       /\ outcome.ruleId \in {ire901, INVALID_RULE, notARealRule}
            => outcome.kind = "throw" /\ outcome.error = "Unknown rule"

\* a rule of the catalog that has no criteria was refused
C3_Witness ==
  /\ outcome.op = "evaluateRule"
  /\ outcome.ruleId = ire901
  /\ ire901 \in DOMAIN rules
  /\ outcome.kind = "throw"

(***************************************************************************)
(* C4: a legacy id, or a case or underscore variant of an id, gets the     *)
(* same score, maxScore, compliant, findings and recommendations as the    *)
(* canonical id on the same evidence.                                      *)
(***************************************************************************)
Aliases ==
  {<<FRE_901, fre901>>, <<FRE_902, fre902>>, <<FRE_1002, fre1001>>,
   <<FRE_803_6, fre803>>, <<FRE_401, fre401>>, <<FRE_403, fre403>>,
   <<fre1002, fre1001>>, <<fre8036, fre803>>,
   <<<<"F","r","e","_","9","0","1">>, fre901>>,
   <<<<"f","r","e","_","8","0","3","-","6">>, fre803>>,
   <<<<"F","R","E","-","4","0","3">>, fre403>>,
   <<<<"f","r","E","_","1","0","0","2">>, fre1001>>}

C4_AliasEquivalence ==
  \A p \in Aliases :
    (outcome.op = "evaluateRule" /\ outcome.ruleId = p[1]) =>
      LET canonical == evaluateRule(p[2], evidence)
      IN /\ outcome.kind = "return"
         /\ canonical.kind = "return"
         /\ SameVerdict(outcome.value, canonical.value)

\* FRE_1002 was evaluated as the best-evidence rule on an original
C4_Witness ==
  /\ Returned("evaluateRule")
  /\ outcome.ruleId = FRE_1002
  /\ outcome.value.findings = <<Str("Original document provided")>>

(***************************************************************************)
(* C5: analyzeEvidence returns six results, for fre-901, fre-902,          *)
(* fre-1001, fre-803, fre-401, fre-403 in this order.                      *)
(***************************************************************************)
C5_SixResultsInOrder ==
  outcome.op = "analyzeEvidence" =>
    /\ outcome.kind = "return"
    /\ Len(outcome.value) = 6
    /\ [i \in 1..Len(outcome.value) |-> outcome.value[i].ruleId]
         = <<fre901, fre902, fre1001, fre803, fre401, fre403>>

\* analyzeEvidence ran on a record that sets hearsay and prejudice fields
C5_Witness ==
  /\ Returned("analyzeEvidence")
  /\ MetadataField(evidence, "isHearsay") = Bool(TRUE)
  /\ MetadataField(evidence, "prejudicialRisk") = Str("high")
  /\ outcome.value[4].score = 20
  /\ outcome.value[6].score = 25

(***************************************************************************)
(* C6: analyzeEvidence and calculateOverallCompliance never fail, whatever *)
(* part of the metadata is absent; an absent field takes the negative      *)
(* branch of the check that reads it.                                      *)
(***************************************************************************)
C6_NeverFails ==
  /\ outcome.op \in {"analyzeEvidence", "calculateOverallCompliance"}
       => outcome.kind = "return"
  /\ outcome.op = "analyzeEvidence" /\ outcome.kind = "return" =>
       LET r == outcome.value
           absent(f) == MetadataField(evidence, f) = Undef
       IN /\ absent("digitalSignature") =>
               /\ r[1].findings[1] = Str("Missing digital authentication")
               /\ r[1].recommendations[1] =
                    "Obtain digital signature or other authentication method"
          /\ absent("chainOfCustody") =>
               r[1].findings[2] = Str("Chain of custody missing or incomplete")
          /\ absent("documentType") =>
               r[2].findings = <<Str("Document requires additional authentication")>>
          /\ absent("isOriginal") /\ absent("copyJustification") =>
               r[3].findings =
                 <<Str("Copy provided without justification for original absence")>>
          /\ absent("regularCourse") /\ absent("isHearsay") =>
               r[4].findings = <<>> /\ r[4].recommendations = <<>>
          /\ absent("relevanceScore") =>
               r[5].findings = <<Str("Evidence relevance questionable")>>
          /\ absent("prejudicialRisk") =>
               r[6].findings = <<>> /\ r[6].recommendations = <<>>

\* analyzeEvidence returned for a record that has no metadata bag at all
C6_Witness ==
  /\ ~HasMetadata(evidence)
  /\ Returned("analyzeEvidence")
  /\ outcome.value[1].recommendations =
       <<"Obtain digital signature or other authentication method",
         "Document complete chain of custody">>

(***************************************************************************)
(* C7: calculateOverallCompliance is round(100 * S / M) for the sums S of  *)
(* score and M of maxScore over the six results, and lies in 0..100.       *)
(***************************************************************************)
SixIds == <<fre901, fre902, fre1001, fre803, fre401, fre403>>

C7_OverallIsRoundedRatio ==
  outcome.op = "calculateOverallCompliance" =>
    LET r == [i \in 1..6 |-> evaluateRule(SixIds[i], evidence).value]
        S == r[1].score + r[2].score + r[3].score + r[4].score
               + r[5].score + r[6].score
        M == r[1].maxScore + r[2].maxScore + r[3].maxScore + r[4].maxScore
               + r[5].maxScore + r[6].maxScore
        v == outcome.value
    IN /\ outcome.kind = "return"
       /\ v \in 0..100
       /\ M > 0
       \* v = floor(100 S / M + 1/2)
       /\ 2 * v * M <= 200 * S + M
       /\ 200 * S + M < 2 * (v + 1) * M

\* the percentage was rounded up: 190 of 195 is 97.4..., 185 of 195 is 94.87
C7_Witness ==
  /\ Returned("calculateOverallCompliance")
  /\ outcome.value = 95
  /\ MetadataField(evidence, "isHearsay") = Bool(TRUE)

(***************************************************************************)
(* C8: under fre-901 a record with a digital signature scores strictly     *)
(* higher than the same record without it, and a record with a non-empty   *)
(* chain of custody strictly higher than the same record with an empty or  *)
(* absent one.                                                             *)
(***************************************************************************)
C8_Fre901Monotone ==
  (Returned("evaluateRule") /\ normalizeRuleId(outcome.ruleId) = fre901
     /\ HasMetadata(evidence)) =>
    /\ Truthy(MetadataField(evidence, "digitalSignature")) =>
         evaluateRule(fre901, WithField(evidence, "digitalSignature", Undef))
           .value.score < outcome.value.score
    /\ HasCustody(evidence) =>
         \A c \in {Undef, Arr(<<>>)} :
           evaluateRule(fre901, WithField(evidence, "chainOfCustody", c))
             .value.score < outcome.value.score

(***************************************************************************)
(* C9: under fre-1001 (or FRE_1002) an original scores strictly higher     *)
(* than the same record as a copy with a copyJustification, which scores   *)
(* strictly higher than the same record as a copy without one.             *)
(***************************************************************************)
C9_BestEvidenceOrdering ==
  (Returned("evaluateRule") /\ outcome.ruleId \in {fre1001, FRE_1002}
     /\ HasMetadata(evidence)
     /\ MetadataField(evidence, "isOriginal") = Bool(TRUE)) =>
    LET justified ==
          WithField(WithField(evidence, "isOriginal", Bool(FALSE)),
                    "copyJustification", Str("Original destroyed in fire"))
        unjustified ==
          WithField(WithField(evidence, "isOriginal", Bool(FALSE)),
                    "copyJustification", Undef)
        sj == evaluateRule(outcome.ruleId, justified).value.score
        su == evaluateRule(outcome.ruleId, unjustified).value.score
    IN outcome.value.score > sj /\ sj > su

(***************************************************************************)
(* C10: under fre-803 a record with regularCourse and recordKeeper set     *)
(* scores strictly higher than the same record without them, and has the   *)
(* business-record-exception finding.                                      *)
(***************************************************************************)
C10_BusinessRecordMonotone ==
  (Returned("evaluateRule") /\ normalizeRuleId(outcome.ruleId) = fre803
     /\ HasMetadata(evidence)
     /\ Truthy(MetadataField(evidence, "regularCourse"))
     /\ Truthy(MetadataField(evidence, "recordKeeper"))) =>
    LET without ==
          WithField(WithField(evidence, "regularCourse", Undef),
                    "recordKeeper", Undef)
    IN /\ evaluateRule(fre803, without).value.score < outcome.value.score
       /\ \E i \in 1..Len(outcome.value.findings) :
            outcome.value.findings[i] =
              Str("Qualifies as business record exception to hearsay")

(***************************************************************************)
(* C11: under fre-803 a record with isHearsay set and no hearsayException  *)
(* scores strictly lower than the same record with neither flag set,       *)
(* whatever its other fields are, regularCourse and recordKeeper included. *)
(***************************************************************************)
C11_HearsayOverrideWins ==
  (Returned("evaluateRule") /\ normalizeRuleId(outcome.ruleId) = fre803
     /\ HasMetadata(evidence)
     /\ Truthy(MetadataField(evidence, "isHearsay"))
     /\ ~Truthy(MetadataField(evidence, "hearsayException"))) =>
    LET baseline ==
          WithField(WithField(evidence, "isHearsay", Undef),
                    "hearsayException", Undef)
    IN outcome.value.score < evaluateRule(fre803, baseline).value.score

(***************************************************************************)
(* C12: a record with a digital signature and at least one chain-of-       *)
(* custody entry gets score > 70 and compliant = true under fre-901 (or    *)
(* FRE_901).                                                               *)
(***************************************************************************)
C12_AuthenticatedAbove70 ==
  (Returned("evaluateRule") /\ outcome.ruleId \in {fre901, FRE_901}
     /\ Truthy(MetadataField(evidence, "digitalSignature"))
     /\ HasCustody(evidence)) =>
    /\ outcome.value.score > 70
    /\ outcome.value.compliant

(***************************************************************************)
(* C13: a record that is not an original and has no copyJustification gets *)
(* score < 60, compliant = false and at least one recommendation (to       *)
(* justify the copy) under fre-1001 or FRE_1002.                           *)
(***************************************************************************)
UnjustifiedCopy(ev) ==
  /\ MetadataField(ev, "isOriginal") \in {Undef, Bool(FALSE)}
  /\ MetadataField(ev, "copyJustification") = Undef

C13_UnjustifiedCopyFlagged ==
  (outcome.op = "evaluateRule" /\ outcome.ruleId \in {fre1001, FRE_1002}
     /\ UnjustifiedCopy(evidence)) =>
    /\ outcome.kind = "return"
    /\ outcome.value.score < 60
    /\ ~outcome.value.compliant
    /\ Len(outcome.value.recommendations) >= 1
    /\ \E i \in 1..Len(outcome.value.recommendations) :
         outcome.value.recommendations[i] =
           "Provide justification for using copy instead of original"

\* FRE_1002 was evaluated on a record that says isOriginal: false
C13_Witness ==
  /\ Returned("evaluateRule")
  /\ outcome.ruleId = FRE_1002
  /\ MetadataField(evidence, "isOriginal") = Bool(FALSE)
  /\ MetadataField(evidence, "copyJustification") = Undef
  /\ outcome.value.score = 25

(***************************************************************************)
(* C18: every element of the findings list of a result of evaluateRule is  *)
(* a Finding record: a type among strength, weakness, missing and concern, *)
(* a description, an impact among high, medium and low, and a rule         *)
(* reference.                                                              *)
(***************************************************************************)
IsFinding(f) ==
  /\ f.t = "object"
  /\ DOMAIN f.v = {"type", "description", "impact", "ruleReference"}
  /\ f.v.type \in {"strength", "weakness", "missing", "concern"}
  /\ f.v.impact \in {"high", "medium", "low"}

C18_FindingsAreRecords ==
  Returned("evaluateRule") =>
    \A i \in 1..Len(outcome.value.findings) :
      IsFinding(outcome.value.findings[i])

(***************************************************************************)
(* C19: under fre-902 a public_record scores strictly higher than the same *)
(* record with any other or no documentType and gets the self-             *)
(* authenticating finding; any other documentType gets the weakness        *)
(* finding and exactly one recommendation.                                 *)
(***************************************************************************)
C19_PublicRecordHigher ==
  (Returned("evaluateRule") /\ normalizeRuleId(outcome.ruleId) = fre902
     /\ HasMetadata(evidence)) =>
    IF MetadataField(evidence, "documentType") = Str("public_record")
    THEN /\ outcome.value.findings =
              <<Str("Document qualifies as self-authenticating public record")>>
         /\ \A other \in FieldValues("documentType") \ {Str("public_record")} :
              outcome.value.score >
                evaluateRule(fre902, WithField(evidence, "documentType", other))
                  .value.score
    ELSE /\ outcome.value.findings =
              <<Str("Document requires additional authentication")>>
         /\ Len(outcome.value.recommendations) = 1

(***************************************************************************)
(* C20: under fre-403, for records that differ in prejudicialRisk only,    *)
(* the score without a risk (or with 'low') is strictly higher than with   *)
(* 'medium', which is strictly higher than with 'high'.                    *)
(***************************************************************************)
C20_PrejudiceOrdering ==
  (Returned("evaluateRule") /\ normalizeRuleId(outcome.ruleId) = fre403
     /\ HasMetadata(evidence)) =>
    LET scoreWith(risk) ==
          evaluateRule(outcome.ruleId,
                       WithField(evidence, "prejudicialRisk", risk)).value.score
    IN /\ outcome.value.score =
            scoreWith(MetadataField(evidence, "prejudicialRisk"))
       /\ scoreWith(Undef) > scoreWith(Str("medium"))
       /\ scoreWith(Str("low")) > scoreWith(Str("medium"))
       /\ scoreWith(Str("medium")) > scoreWith(Str("high"))

(***************************************************************************)
(* C17: generateCitations never fails and returns, in input order, the     *)
(* citation of each id that is in the catalog, leaving out the ids that    *)
(* are not, so that the output is as long as the number of catalog ids in  *)
(* the input; getRuleById returns, and returns nothing exactly for the ids *)
(* that are not in the catalog.                                            *)
(***************************************************************************)
CatalogRule(id) ==
  LET all == FEDERAL_RULES \o INDIANA_RULES
  IN all[CHOOSE i \in 1..Len(all) : all[i].id = id]

C17_CitationsOfKnownIds ==
  /\ outcome.op = "generateCitations" =>
       LET known == SelectSeq(outcome.ruleId, LAMBDA id : id \in CatalogIds)
       IN /\ outcome.kind = "return"
          /\ Len(outcome.value) = Len(known)
          /\ \A i \in 1..Len(known) :
               outcome.value[i] = CatalogRule(known[i]).citation
  /\ outcome.op = "getRuleById" =>
       /\ outcome.kind = "return"
       /\ IF outcome.ruleId \in CatalogIds
          THEN outcome.value = CatalogRule(outcome.ruleId)
          ELSE outcome.value = Undef

\* a list with a legacy id between two catalog ids came back as the two
\* citations, in the order asked
C17_Witness ==
  /\ Returned("generateCitations")
  /\ outcome.ruleId = <<fre803, FRE_901, ire901>>
  /\ outcome.value = <<"Fed. R. Evid. 803", "Ind. R. Evid. 901">>

(***************************************************************************)
(* C15: every ComplianceResult of the analyzer's authentication, best-     *)
(* evidence, relevance and hearsay analyses has compliant = true exactly   *)
(* when its score is at least 70% of its maxScore; no analysis has a       *)
(* threshold of its own.                                                   *)
(***************************************************************************)
C15_NoThresholdOverride ==
  Returned("EvidenceAnalyzer.analyzeEvidence") =>
    \A i \in 1..Len(outcome.value.ruleCompliance) :
      LET r == outcome.value.ruleCompliance[i]
      IN r.compliant <=> (r.score * 100 >= 70 * r.maxScore)

(***************************************************************************)
(* C16: the admissibility likelihood of an analysis is High exactly when   *)
(* the overall score is at least 85 and no finding has high impact, Medium *)
(* exactly when it is not High and the overall score is at least 70 with   *)
(* at most one high-impact finding, and Low in every other case.           *)
(***************************************************************************)
HighImpactCount(ruleCompliance) ==
  SumSeq([i \in 1..Len(ruleCompliance) |->
            Cardinality({k \in 1..Len(ruleCompliance[i].findings) :
                           ruleCompliance[i].findings[k].v.impact = "high"})])

C16_LikelihoodBands ==
  Returned("EvidenceAnalyzer.analyzeEvidence") =>
    LET overall == outcome.value.overallScore
        high == HighImpactCount(outcome.value.ruleCompliance)
        likelihood == outcome.value.admissibilityLikelihood
        isHigh == overall >= Pts(85) /\ high = 0
        isMedium == ~isHigh /\ overall >= Pts(70) /\ high <= 1
    IN /\ likelihood \in {"High", "Medium", "Low"}
       /\ likelihood = "High" <=> isHigh
       /\ likelihood = "Medium" <=> isMedium
       /\ likelihood = "Low" <=> (~isHigh /\ ~isMedium)

\* an original with complete custody and a hash: overall score at least 70
\* and the original's own strength as the one high-impact finding
C16_Witness ==
  /\ Returned("EvidenceAnalyzer.analyzeEvidence")
  /\ evidence.isOriginal
  /\ outcome.value.overallScore >= Pts(70)
  /\ HighImpactCount(outcome.value.ruleCompliance) = 1
  /\ outcome.value.admissibilityLikelihood = "Medium"

(***************************************************************************)
(* C28: no analysis of the analyzer is High: an original always carries a  *)
(* high-impact finding, and a copy always has an overall score below 85.   *)
(***************************************************************************)
C28_NeverHigh ==
  Returned("EvidenceAnalyzer.analyzeEvidence") =>
    /\ outcome.value.admissibilityLikelihood # "High"
    /\ evidence.isOriginal =>
         /\ HighImpactCount(outcome.value.ruleCompliance) >= 1
         /\ Len(outcome.value.criticalIssues) >= 1
    /\ ~evidence.isOriginal => outcome.value.overallScore < Pts(85)

\* the best copy there is: every metadata field present, custody complete,
\* collected, signed and witnessed; overall score 78.75 and still Medium
C28_Witness ==
  /\ Returned("EvidenceAnalyzer.analyzeEvidence")
  /\ ~evidence.isOriginal
  /\ outcome.value.ruleCompliance[1].score = Pts(100)
  /\ outcome.value.criticalIssues = <<>>
  /\ 4 * outcome.value.overallScore = Pts(315)
  /\ outcome.value.admissibilityLikelihood = "Medium"

(***************************************************************************)
(* C21: under fre-401, for records that differ in relevanceScore only, the *)
(* score for the higher relevanceScore is never lower, and the score for   *)
(* relevanceScore 100 is strictly higher than for relevanceScore 0.        *)
(***************************************************************************)
C21_RelevanceScaling ==
  (Returned("evaluateRule") /\ normalizeRuleId(outcome.ruleId) = fre401
     /\ HasMetadata(evidence)
     /\ MetadataField(evidence, "relevanceScore") # Undef) =>
    LET scoreWith(n) ==
          evaluateRule(outcome.ruleId,
                       WithField(evidence, "relevanceScore", Num(n))).value.score
    IN /\ outcome.value.score =
            scoreWith(MetadataField(evidence, "relevanceScore").v)
       /\ \A lower, higher \in RelevanceScores :
            lower <= higher => scoreWith(lower) <= scoreWith(higher)
       /\ scoreWith(100) > scoreWith(0)

(***************************************************************************)
(* C24: in every result of evaluateRule each negative finding comes with a *)
(* recommendation: the result has at least as many recommendations as      *)
(* negative findings.                                                      *)
(***************************************************************************)
NegativeFindings ==
  {Str("Missing digital authentication"),
   Str("Chain of custody missing or incomplete"),
   Str("Document requires additional authentication"),
   Str("Copy provided without justification for original absence"),
   Str("Hearsay evidence without applicable exception"),
   Str("Evidence relevance questionable"),
   Str("Moderate prejudicial risk"),
   Str("High risk of unfair prejudice")}

C24_NegativeFindingHasAdvice ==
  Returned("evaluateRule") =>
    Len(SelectSeq(outcome.value.findings, LAMBDA f : f \in NegativeFindings))
      <= Len(outcome.value.recommendations)

(***************************************************************************)
(* C25: the ruleId of a result of evaluateRule is the id as the caller     *)
(* passed it, not the normalized catalog id.                               *)
(***************************************************************************)
C25_RuleIdAsPassed ==
  Returned("evaluateRule") => outcome.value.ruleId = outcome.ruleId

\* a legacy id that normalization changes came back unchanged
C25_Witness ==
  /\ Returned("evaluateRule")
  /\ outcome.ruleId = FRE_803_6
  /\ normalizeRuleId(outcome.ruleId) = fre803
  /\ outcome.value.ruleId = FRE_803_6

(***************************************************************************)
(* C26: every rule id that passes the existence check of evaluateRule is   *)
(* evaluated by the evaluator of its rule; the default branch (score 50,   *)
(* finding 'Rule evaluation not fully implemented') is never taken.        *)
(***************************************************************************)
IsDefaultFinding(f) ==
  IF f.t = "object"
  THEN f.v.description = "Rule evaluation not fully implemented"
  ELSE FALSE

C26_DefaultBranchUnreachable ==
  Returned("evaluateRule") =>
    /\ \E i \in 1..Len(SixIds) : normalizeRuleId(outcome.ruleId) = SixIds[i]
    /\ \A i \in 1..Len(outcome.value.findings) :
         ~IsDefaultFinding(outcome.value.findings[i])
    /\ outcome.value =
         ComplianceResult(
           outcome.ruleId,
           (CASE normalizeRuleId(outcome.ruleId) = fre901 ->
                   evaluateFRE901(evidence, <<>>, <<>>)
              [] normalizeRuleId(outcome.ruleId) = fre902 ->
                   evaluateFRE902(evidence, <<>>, <<>>)
              [] normalizeRuleId(outcome.ruleId) = fre1001 ->
                   evaluateFRE1002(evidence, <<>>, <<>>)
              [] normalizeRuleId(outcome.ruleId) = fre803 ->
                   evaluateFRE803_6(evidence, <<>>, <<>>)
              [] normalizeRuleId(outcome.ruleId) = fre401 ->
                   evaluateFRE401(evidence, <<>>, <<>>)
              [] normalizeRuleId(outcome.ruleId) = fre403 ->
                   evaluateFRE403(evidence, <<>>, <<>>)).score,
           outcome.value.maxScore,
           outcome.value.findings,
           outcome.value.recommendations)

\* the last case of the switch was reached through a case variant of its id
C26_Witness ==
  /\ Returned("evaluateRule")
  /\ outcome.ruleId = <<"F","R","E","-","4","0","3">>
  /\ MetadataField(evidence, "prejudicialRisk") = Str("high")
  /\ outcome.value.findings = <<Str("High risk of unfair prejudice")>>

(***************************************************************************)
(* C27: for every record whose relevanceScore is absent or in 0..100,      *)
(* calculateOverallCompliance is between 92 and 100, because the six       *)
(* capped scores sum to at least 180 of 195.                               *)
(***************************************************************************)
C27_OverallBetween92And100 ==
  Returned("calculateOverallCompliance") =>
    LET r == [i \in 1..6 |-> evaluateRule(SixIds[i], evidence).value]
    IN /\ outcome.value \in 92..100
       /\ SumSeq([i \in 1..6 |-> r[i].maxScore]) = 195
       /\ SumSeq([i \in 1..6 |-> r[i].score]) \in 180..195

\* the lowest value: no signature, no custody, hearsay without an exception
C27_Witness ==
  /\ Returned("calculateOverallCompliance")
  /\ outcome.value = 92
  /\ ~Truthy(MetadataField(evidence, "digitalSignature"))
  /\ ~HasCustody(evidence)
  /\ Truthy(MetadataField(evidence, "isHearsay"))

Writes == {i \in 1..Len(history) : history[i].op \in {"setApiKey", "clearApiKey"}}

LastWrite == CHOOSE i \in Writes : \A j \in Writes : j <= i

C23_KeyFollowsLatestWrite ==
  Writes # {} =>
    LET w == history[LastWrite]
        expected == IF w.op = "setApiKey" THEN w.apiKey ELSE Null
    IN /\ \A i \in (LastWrite + 1)..Len(history) :
            /\ history[i].op = "getApiKey" => history[i].value = expected
            /\ history[i].op = "isApiKeyConfigured" =>
                 history[i].value = Bool(w.op = "setApiKey")
       \* what the two reads would return now
       /\ getApiKey(currentApiKey, ai, localStorage).value = expected
       /\ isApiKeyConfigured(currentApiKey, ai, localStorage).value
            = Bool(w.op = "setApiKey")
       /\ getItem(localStorage, "gemini_api_key") = expected
       /\ w.op = "clearApiKey" => "gemini_api_key" \notin DOMAIN localStorage

\* a key was set, cleared and read back as null where an earlier session
\* had left a stored key
C23_Witness ==
  /\ Len(history) = 4
  /\ history[1].op = "getApiKey"
  /\ history[1].value = Str("AIzaSy-earlier-session0")
  /\ history[2].op = "setApiKey"
  /\ history[3].op = "clearApiKey"
  /\ history[4].op = "getApiKey"
  /\ history[4].value = Null

(***************************************************************************)
(* C29: executeWithRetry calls the request function at most 4 times and    *)
(* always terminates: it returns at the first success, throws at once and  *)
(* without another attempt on the first error that is not retryable, and   *)
(* throws the last error after the fourth retryable failure in a row.      *)
(***************************************************************************)
\* the status of a request, "unsent" before its makeAPIRequest call
StatusOf(id) ==
  IF id \in DOMAIN requests THEN requests[id].status ELSE "unsent"

RetryableRequestErrors == {TimeoutError, QuotaError}

RetryStep(before, after) ==
  /\ before.status = "requestFn" /\ after.status = "resolved" =>
       after.calls = before.calls
  /\ before.status = "requestFn" /\ after.status = "rejected" =>
       /\ after.error = after.lastError
       /\ after.calls = before.calls
       /\ after.error \notin RetryableRequestErrors \/ before.calls = 4
  /\ before.status = "requestFn" /\ after.status = "backoff" =>
       /\ after.lastError \in RetryableRequestErrors
       /\ before.calls < 4
       /\ after.calls = before.calls
  /\ before.status = "backoff" /\ after # before =>
       /\ after.status = "requestFn"
       /\ after.calls = before.calls + 1
  /\ before.status \in SettledStatus => after = before

C29_RetryBoundedAndTerminates ==
  /\ [](\A id \in DOMAIN requests : requests[id].calls <= 4)
  /\ [][\A id \in DOMAIN requests : RetryStep(requests[id], requests'[id])]_vars
  /\ \A id \in 1..MaxRequests :
       (StatusOf(id) \in ExecutingStatus) ~> (StatusOf(id) \in SettledStatus)

\* a request was rejected with the error of its fourth retryable failure
C29_Witness ==
  \E id \in DOMAIN requests :
    /\ requests[id].status = "rejected"
    /\ requests[id].calls = 4
    /\ requests[id].attempt = 3
    /\ requests[id].error = QuotaError

(***************************************************************************)
(* C30: at most one queued request is executing at a time, requests start  *)
(* in the order in which they were enqueued, and every enqueued request is *)
(* eventually resolved or rejected, one enqueued during the drain and one  *)
(* behind a failing request included.                                      *)
(***************************************************************************)
OneAtATime ==
  /\ Cardinality({id \in DOMAIN requests :
                    requests[id].status \in ExecutingStatus}) <= 1
  /\ Cardinality(DOMAIN loops) <= 1
  /\ isProcessingQueue <=> DOMAIN loops # {}

StartsInQueueOrder ==
  \A i, j \in DOMAIN requests :
    (i < j /\ requests[j].order > 0) =>
      /\ requests[i].order > 0
      /\ requests[i].order < requests[j].order

====
